---- MODULE Spec2Model ----
(***************************************************************************)
(* Incremental collection pipeline of SeeSeaIntelligence:                  *)
(*   DataCollector (src/src/core/collector.py) and the IMF PortWatch       *)
(*   fetcher (src/src/collectors/imf_portwatch.py), specification Spec;    *)
(*   BackfillManager (src/src/core/backfill.py), specification SpecGap;    *)
(*   DataProcessor.process_to_csv (src/src/core/processor.py),             *)
(*   specification SpecRender; CollectionScheduler.run_once_now            *)
(*   (src/src/scheduler.py), specification SpecBatch.                      *)
(*                                                                         *)
(* Dates are day ordinals: the code keeps them as zero-padded ISO strings  *)
(* 'YYYY-MM-DD', whose lexicographic order is the calendar order, and adds *)
(* one day through datetime/timedelta, which is +1 on the ordinal.         *)
(* vessel_count stands for the whole metric payload of a daily record      *)
(* (vessel_count and the five breakdown counters are copied together).     *)
(* Storage failures are modelled on the two writes of save_data: the       *)
(* per-date pickle write and the metadata write. Either may raise before   *)
(* the file is created, or after open() created/truncated it.              *)
(***************************************************************************)
EXTENDS Integers, Sequences, FiniteSets, TLC

\* ------------------------------------------------------------------ bounds
MaxDate == 3
MaxUpstream == 3
MaxCollects == 2

\* resultRecordCount of the incremental query (100 in the code), scaled to
\* the bounded calendar.
resultRecordCount == 2

Dates == 1..MaxDate
Values == {1, 2}
Pairs == {"p1", "p2"}
Runs == {"r1", "r2"}

\* The configuration tree src/logistics/chokepoints/: chokepoint c1 has a
\* state_variables.json with the variables v1 and v2 (in that order), the
\* directory of c2 has none. vx is a variable name no configuration holds.
Chokepoints == {"c1", "c2"}
VariableNames == {"v1", "v2", "vx"}
HasConfig(chokepoint) == chokepoint = "c1"
StateVariables(chokepoint) == IF chokepoint = "c1" THEN <<"v1", "v2">> ELSE <<>>
ConfigKeys(chokepoint) ==
    {StateVariables(chokepoint)[k] : k \in 1..Len(StateVariables(chokepoint))}
\* The (chokepoint, variable) pairs, by the directory each one owns.
PairId(chokepoint, variable) == IF variable = "v1" THEN "p1" ELSE "p2"

None == 0

\* A feature of the upstream ArcGIS layer / an entry of time_series.
\* The figure of the most recent day is provisional: for that date the layer
\* may expose a second feature with other numbers.
DailyRecords ==
    {x \in [date : Dates, vessel_count : Values] :
        x.vessel_count = 1 \/ x.date = MaxDate}

VARIABLES
    files,      \* files[p]: the *.pckl files of data/.../{chokepoint}/{variable}/
    meta,       \* meta[p]: the _metadata.json of that directory
    dataDir,    \* dataDir[p]: the directory exists
    upstream,   \* upstream[p]: the features the upstream layer exposes
    now,        \* the clock of datetime.utcnow(): it ticks once per call of
                \* collect, whose reads all return that tick (run[r].t)
    run,        \* run[r]: one invocation of DataCollector.collect
    missing,    \* the last call of BackfillManager.get_missing_dates and its result
    scan,       \* the invocation of BackfillManager.get_all_missing_dates
    csv,        \* csv[p]: processed/.../{variable}.csv
    json,       \* json[p]: processed/.../{variable}.json
    procMeta,   \* procMeta[p]: _processing_metadata.json of that directory
    render,     \* the last call of DataProcessor.process_to_csv and its outcome
    sched       \* CollectionScheduler.run_once_now: its position in the job list

storeVars == <<files, meta, dataDir, upstream, now, run>>
gapVars == <<missing, scan>>
viewVars == <<csv, json, procMeta, render>>

\* What the collector never touches.
others == <<gapVars, viewVars, sched>>

vars == <<storeVars, gapVars, viewVars, sched>>

\* ------------------------------------------------------- files and metadata
NoMeta == [state |-> "none", latest_date |-> None, last_updated |-> None]
CorruptMeta == [state |-> "corrupt", latest_date |-> None, last_updated |-> None]

\* Faulty variant: the file is named after the date and the figure it holds
FileNameByValue(daily_record) ==
    daily_record.date * 10 + daily_record.vessel_count

\* file_path = data_dir / f'{date_str}.pckl'
FileName(daily_record) == daily_record.date

\* Faulty variant: the existence check is dropped
ExistsNever(p, name) == FALSE

\* file_path.exists()
Exists(p, name) == \E f \in files[p] : f.name = name

\* open(file_path, 'wb'): creates the file or truncates the one of that name.
WriteFile(fs, f) == {g \in fs : g.name # f.name} \cup {f}

\* daily_data of save_data, pickled into the file.
DailyData(name, daily_record, data) ==
    [name |-> name, kind |-> "daily_data", date |-> daily_record.date,
     vessel_count |-> daily_record.vessel_count,
     collected_at |-> data.timestamp]

\* What open() leaves behind when pickle.dump / close fails: an empty file.
TruncatedFile(name) ==
    [name |-> name, kind |-> "truncated", date |-> None, vessel_count |-> None,
     collected_at |-> None]

\* pickle.dump(data, f) of the non-timeseries branch: the whole result, which
\* has no 'date' key.
RawDataFile(name, data) ==
    [name |-> name, kind |-> "data", date |-> None, vessel_count |-> None,
     collected_at |-> data.timestamp]

\* The Observations stored for a pair: the files that unpickle to daily_data.
Observations(p) == {f \in files[p] : f.kind = "daily_data"}
StoredDates(p) == {f.date : f \in Observations(p)}

\* ------------------------------------------------------------- the fetcher
MaxOf(S) == CHOOSE x \in S : \A y \in S : y <= x

\* The layer's answer under orderByFields=date DESC: every arrangement of the
\* features with non-increasing dates (the order among equal dates is the
\* server's).
RECURSIVE DescSeqs(_)
DescSeqs(S) ==
    IF S = {} THEN {<<>>}
    ELSE LET top == MaxOf({x.date : x \in S})
         IN UNION {{<<x>> \o t : t \in DescSeqs(S \ {x})} :
                        x \in {y \in S : y.date = top}}

\* &resultRecordCount=100 is appended only when start_date is given.
FirstN(seq, n) == SubSeq(seq, 1, IF Len(seq) < n THEN Len(seq) ELSE n)
Features(all, start_date) ==
    IF start_date # None THEN FirstN(all, resultRecordCount) ELSE all

\* time_series.sort(key=lambda x: x['date']): a stable sort.
RECURSIVE SortFrom(_, _)
SortFrom(seq, d) ==
    IF d > MaxDate THEN <<>>
    ELSE SelectSeq(seq, LAMBDA x : x.date = d) \o SortFrom(seq, d + 1)
\* Faulty variant: the features are kept in the order the layer gave them
KeepOrder(seq) == seq

SortByDate(seq) == SortFrom(seq, 1)

\* if start_date and date_ms < start_epoch: continue
KeepFeature(x, start_date) == start_date = None \/ x.date >= start_date

TimeSeries(features, start_date) ==
    SortByDate(SelectSeq(features, LAMBDA x : KeepFeature(x, start_date)))

NoKey == -1
ErrorData(ts) ==
    [status |-> "error", time_series |-> <<>>, total_records |-> NoKey,
     timestamp |-> ts]
SuccessData(time_series, ts) ==
    [status |-> "success", time_series |-> time_series,
     total_records |-> Len(time_series), timestamp |-> ts]
NoData == [status |-> "none", time_series |-> <<>>, total_records |-> NoKey,
           timestamp |-> None]

\* IMFPortWatchCollector.collect on the answer `all` of the layer.
FetchResult(all, start_date, ts) ==
    IF Features(all, start_date) = <<>>
    THEN SuccessData(<<>>, ts)
    ELSE SuccessData(TimeSeries(Features(all, start_date), start_date), ts)

\* Faulty variant: data.get('total_records') without the default
TotalRecordsNoDefault(data) == data.total_records

\* data.get('total_records', 0)
TotalRecords(data) == IF data.total_records = NoKey THEN 0 ELSE data.total_records

\* ------------------------------------------------------------ the collector
\* _get_latest_date: None without metadata; json.load raises on a truncated file.
\* (Begin raises in its place.)
LatestDate(m) == IF m.state = "ok" THEN m.latest_date ELSE None

\* Faulty variant: the metadata is consulted whatever the mode
StartDateAnyMode(incremental, m) ==
    IF m.state = "ok" /\ m.latest_date # None
    THEN m.latest_date + 1 ELSE None

\* collect, lines 102-114: start_date = latest_date + 1 day, or None.
StartDate(incremental, m) ==
    IF incremental /\ LatestDate(m) # None
    THEN LatestDate(m) + 1 ELSE None

\* pre_files and pre_meta record the files and metadata the call found (history
\* only: no step reads them); failed_at is the index at which a write raised;
\* config_error is the exception of load_config / the variable lookup.
IdleRun(p) ==
    [pc |-> "idle", pair |-> p, t |-> None, incremental |-> TRUE,
     start_date |-> None,
     data |-> NoData, i |-> 1, saved_count |-> 0, skipped_count |-> 0,
     failed_at |-> None, pre_files |-> {}, pre_meta |-> NoMeta,
     config_error |-> "none"]

Finished(r) == run[r].pc \in {"idle", "returned", "raised"}

TypeOK ==
    /\ \A p \in Pairs : \A f \in files[p] : f.name \in Nat
    /\ \A p \in Pairs : meta[p].state \in {"none", "ok", "corrupt"}
    /\ dataDir \in [Pairs -> BOOLEAN]
    /\ \A p \in Pairs : upstream[p] \subseteq DailyRecords
    /\ now \in 0..MaxCollects
    /\ \A r \in Runs : run[r].pc \in
          {"idle", "fetch", "save", "loop", "write", "metadata", "returned", "raised"}
    /\ missing.called \in BOOLEAN
    /\ scan.pc \in {"idle", "chokepoint", "variable", "done"}
    /\ \A p \in Pairs : csv[p].exists \in BOOLEAN /\ csv[p].newline \in BOOLEAN
    /\ \A p \in Pairs : json[p].exists \in BOOLEAN
    /\ \A p \in Pairs : procMeta[p].csv \in Nat /\ procMeta[p].json \in Nat
    /\ render.status \in {"none", "returned", "raised"}
    /\ sched.pc \in {"idle", "job", "done", "scheduled", "started"}

\* No call of the gap detector yet.
NoCall == [called |-> FALSE, op |-> "get_missing_dates", pair |-> "p1",
           start_date |-> None, today |-> None, result |-> <<>>, needs |-> FALSE]
\* missing_data maps a pair to its missing dates; <<>> stands for "no key"
\* (the code stores a key only for a non-empty list). failed and unloaded
\* record the pairs whose scan raised and the chokepoints whose configuration
\* did not load (history only).
IdleScan ==
    [pc |-> "idle", order |-> <<>>, ci |-> 1, vi |-> 1, today |-> None,
     missing_data |-> [p \in Pairs |-> <<>>], failed |-> {}, unloaded |-> {}]

\* No artifact: the CSV file does not exist. An artifact is its data rows (the
\* header line is implied) and whether its last line ends with a newline.
NoCsv == [exists |-> FALSE, rows |-> <<>>, newline |-> TRUE]
\* No JSON artifact; one that exists holds the list under its 'data' key.
NoJson == [exists |-> FALSE, format |-> "records", data |-> <<>>]
\* _processing_metadata.json: the record_count of each format (None: no entry).
NoProcMeta == [csv |-> None, json |-> None]
NoRender == [called |-> FALSE, op |-> "csv", pair |-> "p1", incremental |-> TRUE,
             status |-> "none", before |-> NoCsv]
\* jobs is the job store of the BlockingScheduler (job id -> the pair its
\* collect_data is called with), instances the executor's count of running
\* instances of each job.
IdleSched == [pc |-> "idle", configs |-> <<>>, k |-> 1, jobs |-> <<>>,
              instances |-> <<>>]

InitOthers ==
    /\ missing = NoCall
    /\ scan = IdleScan
    /\ csv = [p \in Pairs |-> NoCsv]
    /\ json = [p \in Pairs |-> NoJson]
    /\ procMeta = [p \in Pairs |-> NoProcMeta]
    /\ render = NoRender
    /\ sched = IdleSched

Init ==
    /\ InitOthers
    /\ files = [p \in Pairs |-> {}]
    /\ meta = [p \in Pairs |-> NoMeta]
    /\ dataDir = [p \in Pairs |-> FALSE]
    /\ upstream = [p \in Pairs |-> {}]
    /\ now = 0
    /\ run = [r \in Runs |-> IdleRun(IF r = "r1" THEN "p1" ELSE "p2")]

\* The upstream source publishes, revises or withdraws features. It is read
\* only by Fetch, so it changes between the collections of the pair (and, the
\* number of collections being capped, only while one can still follow).
Publish(p) ==
    /\ \A r \in Runs : run[r].pair = p => Finished(r)
    /\ now < MaxCollects
    /\ Cardinality(upstream[p]) < MaxUpstream
    /\ \E x \in DailyRecords \ upstream[p] :
          upstream' = [upstream EXCEPT ![p] = @ \cup {x}]
    /\ UNCHANGED <<files, meta, dataDir, now, run>>
    /\ UNCHANGED others

Withdraw(p) ==
    /\ \A r \in Runs : run[r].pair = p => Finished(r)
    /\ now < MaxCollects
    /\ \E x \in upstream[p] :
          upstream' = [upstream EXCEPT ![p] = @ \ {x}]
    /\ UNCHANGED <<files, meta, dataDir, now, run>>
    /\ UNCHANGED others

\* load_config raises FileNotFoundError when the chokepoint has no
\* state_variables.json; collect raises ValueError when the variable is not a
\* key of it.
ConfigError(chokepoint, variable) ==
    IF ~HasConfig(chokepoint) THEN "FileNotFoundError"
    ELSE IF variable \notin ConfigKeys(chokepoint) THEN "ValueError"
    ELSE "none"

\* Faulty variant: the data directory is created before the configuration is read
CollectUnconfiguredMkdir(r) ==
    /\ Finished(r)
    /\ \E chokepoint \in Chokepoints, variable \in VariableNames :
          /\ ConfigError(chokepoint, variable) # "none"
          /\ run' = [run EXCEPT ![r] =
                [IdleRun(run[r].pair) EXCEPT
                    !.pc = "raised",
                    !.config_error = ConfigError(chokepoint, variable)]]
          /\ dataDir' = [dataDir EXCEPT ![PairId(chokepoint, variable)] = TRUE]
    /\ UNCHANGED <<files, meta, upstream, now>>
    /\ UNCHANGED others

\* collect(chokepoint, variable) for a chokepoint or a variable that is not
\* configured: lines 90-94 raise before anything else is done.
CollectUnconfigured(r) ==
    /\ Finished(r)
    /\ \E chokepoint \in Chokepoints, variable \in VariableNames :
          /\ ConfigError(chokepoint, variable) # "none"
          /\ run' = [run EXCEPT ![r] =
                [IdleRun(run[r].pair) EXCEPT
                    !.pc = "raised",
                    !.config_error = ConfigError(chokepoint, variable)]]
    /\ UNCHANGED <<files, meta, dataDir, upstream, now>>
    /\ UNCHANGED others

\* collect(chokepoint, variable, incremental), lines 90-114, for a configured
\* variable.
Begin(r, incremental) ==
    LET p == run[r].pair IN
    /\ Finished(r)
    /\ now < MaxCollects
    /\ now' = now + 1
    /\ IF incremental /\ meta[p].state = "corrupt"
       THEN run' = [run EXCEPT ![r] =
                [IdleRun(p) EXCEPT !.pc = "raised", !.t = now + 1,
                                   !.incremental = incremental,
                                   !.pre_files = files[p], !.pre_meta = meta[p]]]
       ELSE run' = [run EXCEPT ![r] =
                [IdleRun(p) EXCEPT !.pc = "fetch", !.t = now + 1,
                                   !.incremental = incremental,
                                   !.start_date = StartDate(incremental, meta[p]),
                                   !.pre_files = files[p], !.pre_meta = meta[p]]]
    /\ UNCHANGED <<files, meta, dataDir, upstream>>
    /\ UNCHANGED others

\* collector.collect(source_url, chokepoint, variable, start_date=start_date)
FetchOk(r) ==
    LET p == run[r].pair IN
    /\ run[r].pc = "fetch"
    /\ \E all \in DescSeqs(upstream[p]) :
          run' = [run EXCEPT ![r].pc = "save",
                             ![r].data = FetchResult(all, run[r].start_date, run[r].t)]
    /\ UNCHANGED <<files, meta, dataDir, upstream, now>>
    /\ UNCHANGED others

\* except Exception as e: return {... "status": "error" ...}
FetchFail(r) ==
    /\ run[r].pc = "fetch"
    /\ run' = [run EXCEPT ![r].pc = "save", ![r].data = ErrorData(run[r].t)]
    /\ UNCHANGED <<files, meta, dataDir, upstream, now>>
    /\ UNCHANGED others

\* Faulty variant: the "no new data" branch refreshes last_updated of the metadata
SaveDataTouch(r) ==
    LET p == run[r].pair
        data == run[r].data IN
    /\ run[r].pc = "save"
    /\ dataDir' = [dataDir EXCEPT ![p] = TRUE]
    /\ IF Len(data.time_series) > 0
       THEN /\ run' = [run EXCEPT ![r].pc = "loop", ![r].i = 1]
            /\ UNCHANGED meta
       ELSE /\ run' = [run EXCEPT ![r].pc = "returned"]
            /\ meta' = [meta EXCEPT ![p] =
                  [state |-> "ok", latest_date |-> LatestDate(meta[p]),
                   last_updated |-> run[r].t]]
    /\ UNCHANGED <<files, upstream, now>>
    /\ UNCHANGED others

\* save_data, lines 144-153 and 195-209: mkdir, then the branch on time_series.
SaveData(r) ==
    LET p == run[r].pair
        data == run[r].data IN
    /\ run[r].pc = "save"
    /\ dataDir' = [dataDir EXCEPT ![p] = TRUE]
    /\ IF Len(data.time_series) > 0
       THEN /\ run' = [run EXCEPT ![r].pc = "loop", ![r].i = 1]
            /\ UNCHANGED files
       ELSE IF TotalRecords(data) = 0
       THEN /\ run' = [run EXCEPT ![r].pc = "returned"]
            /\ UNCHANGED files
       ELSE \E today \in Dates :
            /\ files' = [files EXCEPT ![p] = WriteFile(@, RawDataFile(today, data))]
            /\ run' = [run EXCEPT ![r].pc = "returned"]
    /\ UNCHANGED <<meta, upstream, now>>
    /\ UNCHANGED others

\* for daily_record in time_series: if file_path.exists(): skip
Check(r) ==
    LET p == run[r].pair
        ts == run[r].data.time_series IN
    /\ run[r].pc = "loop"
    /\ IF run[r].i > Len(ts)
       THEN run' = [run EXCEPT ![r].pc = "metadata"]
       ELSE IF Exists(p, FileName(ts[run[r].i]))
       THEN run' = [run EXCEPT ![r].skipped_count = @ + 1, ![r].i = @ + 1]
       ELSE run' = [run EXCEPT ![r].pc = "write"]
    /\ UNCHANGED <<files, meta, dataDir, upstream, now>>
    /\ UNCHANGED others

\* Faulty variant: the metadata is advanced with every record written
WriteEager(r) ==
    LET p == run[r].pair
        rec == run[r].data.time_series[run[r].i] IN
    /\ run[r].pc = "write"
    /\ files' = [files EXCEPT ![p] =
                    {g \in @ : g.name # rec.date} \cup
                    {[name |-> rec.date, kind |-> "daily_data", date |-> rec.date,
                      vessel_count |-> rec.vessel_count,
                      collected_at |-> run[r].data.timestamp]}]
    /\ meta' = [meta EXCEPT ![p] =
                   [state |-> "ok", latest_date |-> rec.date,
                    last_updated |-> run[r].t]]
    /\ run' = [run EXCEPT ![r].pc = "loop", ![r].saved_count = @ + 1, ![r].i = @ + 1]
    /\ UNCHANGED <<dataDir, upstream, now>>
    /\ UNCHANGED others

\* Faulty variant: the file path lacks the pair, every pair shares one directory
WriteSharedDir(r) ==
    LET rec == run[r].data.time_series[run[r].i] IN
    /\ run[r].pc = "write"
    /\ files' = [q \in Pairs |->
                    WriteFile(files[q], DailyData(FileName(rec), rec, run[r].data))]
    /\ run' = [run EXCEPT ![r].pc = "loop", ![r].saved_count = @ + 1, ![r].i = @ + 1]
    /\ UNCHANGED <<meta, dataDir, upstream, now>>
    /\ UNCHANGED others

\* with open(file_path, 'wb') as f: pickle.dump(daily_data, f)
Write(r) ==
    LET p == run[r].pair
        rec == run[r].data.time_series[run[r].i] IN
    /\ run[r].pc = "write"
    /\ files' = [files EXCEPT ![p] =
                    WriteFile(@, DailyData(FileName(rec), rec, run[r].data))]
    /\ run' = [run EXCEPT ![r].pc = "loop", ![r].saved_count = @ + 1, ![r].i = @ + 1]
    /\ UNCHANGED <<meta, dataDir, upstream, now>>
    /\ UNCHANGED others

\* Faulty variant: the failed write is caught and the loop goes on
WriteFailSwallowed(r) ==
    /\ run[r].pc = "write"
    /\ run' = [run EXCEPT ![r].pc = "loop", ![r].failed_at = run[r].i,
                          ![r].i = @ + 1]
    /\ UNCHANGED <<files, meta, dataDir, upstream, now>>
    /\ UNCHANGED others

\* The write raises: open() failed (no file), or the dump failed after open()
\* had created the file.
WriteFail(r) ==
    LET p == run[r].pair
        rec == run[r].data.time_series[run[r].i] IN
    /\ run[r].pc = "write"
    /\ \/ UNCHANGED files
       \/ files' = [files EXCEPT ![p] = WriteFile(@, TruncatedFile(FileName(rec)))]
    /\ run' = [run EXCEPT ![r].pc = "raised", ![r].failed_at = run[r].i]
    /\ UNCHANGED <<meta, dataDir, upstream, now>>
    /\ UNCHANGED others

\* Faulty variant: the first record of the batch is taken
BatchFirst(time_series) == time_series[1].date

\* latest_date = time_series[-1]['date']
BatchLatest(time_series) == time_series[Len(time_series)].date

\* _update_metadata
Metadata(latest_date, ts) ==
    [state |-> "ok", latest_date |-> latest_date, last_updated |-> ts]

UpdateMetadata(r) ==
    LET p == run[r].pair IN
    /\ run[r].pc = "metadata"
    /\ meta' = [meta EXCEPT ![p] =
                   Metadata(BatchLatest(run[r].data.time_series), run[r].t)]
    /\ run' = [run EXCEPT ![r].pc = "returned"]
    /\ UNCHANGED <<files, dataDir, upstream, now>>
    /\ UNCHANGED others

\* The metadata write raises: before open(), or after open(metadata_path, 'w')
\* truncated the file.
UpdateMetadataFail(r) ==
    LET p == run[r].pair IN
    /\ run[r].pc = "metadata"
    /\ \/ UNCHANGED meta
       \/ meta' = [meta EXCEPT ![p] = CorruptMeta]
    /\ run' = [run EXCEPT ![r].pc = "raised", ![r].failed_at = run[r].i]
    /\ UNCHANGED <<files, dataDir, upstream, now>>
    /\ UNCHANGED others

Step(r) ==
    \/ CollectUnconfigured(r)
    \/ \E incremental \in BOOLEAN : Begin(r, incremental)
    \/ FetchOk(r)
    \/ FetchFail(r)
    \/ SaveData(r)
    \/ Check(r)
    \/ Write(r)
    \/ WriteFail(r)
    \/ UpdateMetadata(r)
    \/ UpdateMetadataFail(r)

\* One collection task at a time on one (chokepoint, variable).
Next ==
    \/ Publish("p1")
    \/ Withdraw("p1")
    \/ Step("r1")

Spec == Init /\ [][Next]_vars

\* ------------------------------------------------------- the gap detector
\* "check last 30 days": the default window, scaled to the bounded calendar.
DefaultDays == 1
\* The day on which the gap detector runs (datetime.utcnow()).
Todays == 2..(MaxDate + 1)

\* all_dates: every date from start to end, both included.
AllDates(start, end) ==
    [k \in 1..(IF end >= start THEN end - start + 1 ELSE 0) |-> start + k - 1]

\* existing_files = set(f.stem for f in data_dir.glob('*.pckl'))
ExistingFiles(p) == {f.name : f \in files[p]}

\* get_missing_dates(chokepoint, variable, start_date); the range ends today.
GetMissingDates(p, start_date, today) ==
    LET start == IF start_date = None THEN today - DefaultDays ELSE start_date
        all_dates == AllDates(start, today)
    IN IF ~dataDir[p] THEN all_dates
       ELSE SelectSeq(all_dates, LAMBDA d : d \notin ExistingFiles(p))

\* A call of get_missing_dates (needs_backfill calls it with start_date None).
\* A behaviour follows one invocation of the gap detector on the store.
GetMissingDatesCall(p) ==
    /\ scan.pc = "idle"
    /\ ~missing.called
    /\ \E start_date \in Dates \cup {None}, today \in Todays :
          missing' = [NoCall EXCEPT
                         !.called = TRUE, !.pair = p, !.start_date = start_date,
                         !.today = today,
                         !.result = GetMissingDates(p, start_date, today)]
    /\ UNCHANGED <<storeVars, viewVars, sched, scan>>

\* needs_backfill(chokepoint, variable): len(get_missing_dates(...)) > 0.
NeedsBackfill(p) ==
    /\ scan.pc = "idle"
    /\ ~missing.called
    /\ \E today \in Todays :
          LET found == GetMissingDates(p, None, today) IN
          missing' = [NoCall EXCEPT
                         !.called = TRUE, !.op = "needs_backfill", !.pair = p,
                         !.today = today, !.result = found,
                         !.needs = (Len(found) > 0)]
    /\ UNCHANGED <<storeVars, viewVars, sched, scan>>

\* chokepoints_dir.iterdir(): the directories come in the order of the file system.
IterDir ==
    {order \in [1..Cardinality(Chokepoints) -> Chokepoints] :
        \A j, k \in DOMAIN order : j # k => order[j] # order[k]}

\* get_all_missing_dates, lines 77-81.
ScanStart ==
    /\ scan.pc = "idle"
    /\ ~missing.called
    /\ \E order \in IterDir, today \in Todays :
          scan' = [IdleScan EXCEPT !.pc = "chokepoint", !.order = order,
                                   !.today = today]
    /\ UNCHANGED <<storeVars, viewVars, sched, missing>>

\* if not config_file.exists(): continue
ScanNoConfig ==
    /\ scan.pc = "chokepoint"
    /\ scan.ci <= Len(scan.order)
    /\ ~HasConfig(scan.order[scan.ci])
    /\ scan' = [scan EXCEPT !.ci = @ + 1]
    /\ UNCHANGED <<storeVars, viewVars, sched, missing>>

\* config = json.load(f)
ScanLoadConfig ==
    /\ scan.pc = "chokepoint"
    /\ scan.ci <= Len(scan.order)
    /\ HasConfig(scan.order[scan.ci])
    /\ scan' = [scan EXCEPT !.pc = "variable", !.vi = 1]
    /\ UNCHANGED <<storeVars, viewVars, sched, missing>>

\* open / json.load raises; except Exception: print, next chokepoint.
ScanLoadConfigFail ==
    /\ scan.pc = "chokepoint"
    /\ scan.ci <= Len(scan.order)
    /\ HasConfig(scan.order[scan.ci])
    /\ scan' = [scan EXCEPT !.ci = @ + 1,
                            !.unloaded = @ \cup {scan.order[scan.ci]}]
    /\ UNCHANGED <<storeVars, viewVars, sched, missing>>

\* for variable_name in config.keys(): missing = get_missing_dates(...);
\* if missing: missing_data[(chokepoint_id, variable_name)] = missing
ScanVariable ==
    LET chokepoint == scan.order[scan.ci]
        config == StateVariables(chokepoint) IN
    /\ scan.pc = "variable"
    /\ IF scan.vi > Len(config)
       THEN scan' = [scan EXCEPT !.pc = "chokepoint", !.ci = @ + 1]
       ELSE LET p == PairId(chokepoint, config[scan.vi])
                found == GetMissingDates(p, None, scan.today)
            IN IF found # <<>>
               THEN scan' = [scan EXCEPT !.vi = @ + 1, !.missing_data[p] = found]
               ELSE scan' = [scan EXCEPT !.vi = @ + 1]
    /\ UNCHANGED <<storeVars, viewVars, sched, missing>>

\* get_missing_dates raises for this variable (its data directory cannot be
\* listed): the except clause of the chokepoint catches it, outside the loop
\* over the variables.
ScanVariableFail ==
    LET chokepoint == scan.order[scan.ci]
        config == StateVariables(chokepoint) IN
    /\ scan.pc = "variable"
    /\ scan.vi <= Len(config)
    /\ dataDir[PairId(chokepoint, config[scan.vi])]
    /\ scan' = [scan EXCEPT !.pc = "chokepoint", !.ci = @ + 1,
                  !.failed = @ \cup {PairId(chokepoint, config[scan.vi])}]
    /\ UNCHANGED <<storeVars, viewVars, sched, missing>>

\* return missing_data
ScanReturn ==
    /\ scan.pc = "chokepoint"
    /\ scan.ci > Len(scan.order)
    /\ scan' = [scan EXCEPT !.pc = "done"]
    /\ UNCHANGED <<storeVars, viewVars, sched, missing>>

\* The directories a sequence of collects can leave behind: for each date no
\* file, an Observation, or the truncated file of a failed write.
StoredFiles(D, T) ==
    {DailyData(d, [date |-> d, vessel_count |-> 1], [timestamp |-> 1]) : d \in D}
        \cup {TruncatedFile(d) : d \in T}
Directories ==
    UNION {{StoredFiles(D, T) : T \in SUBSET (Dates \ D)} : D \in SUBSET Dates}

\* The gap detector on a store at rest.
InitGap ==
    /\ InitOthers
    /\ files \in [Pairs -> Directories]
    /\ dataDir \in [Pairs -> BOOLEAN]
    /\ \A p \in Pairs : files[p] # {} => dataDir[p]
    /\ meta = [p \in Pairs |-> NoMeta]
    /\ upstream = [p \in Pairs |-> {}]
    /\ now = 0
    /\ run = [r \in Runs |-> IdleRun(IF r = "r1" THEN "p1" ELSE "p2")]

NextGap ==
    \/ \E p \in Pairs : GetMissingDatesCall(p)
    \/ ScanStart
    \/ ScanNoConfig
    \/ ScanLoadConfig
    \/ ScanLoadConfigFail
    \/ ScanVariable
    \/ ScanVariableFail
    \/ ScanReturn

SpecGap == InitGap /\ [][NextGap]_vars

\* ------------------------------------------------------- the view builder
\* The row of the CSV made from a stored daily_data; rest is what follows the
\* last column on the same line (nothing, in a well-formed row).
Row(data) ==
    [date |-> data.date, vessel_count |-> data.vessel_count,
     collected_at |-> data.collected_at, rest |-> None]

\* pickle_files = sorted(raw_dir.glob('*.pckl')): the files by name.
RECURSIVE PickleFilesFrom(_, _)
PickleFilesFrom(p, name) ==
    IF name > MaxDate THEN <<>>
    ELSE (IF Exists(p, name)
          THEN <<CHOOSE f \in files[p] : f.name = name>> ELSE <<>>)
         \o PickleFilesFrom(p, name + 1)
\* Faulty variant: the glob is not sorted (the directory lists newest first)
PickleFilesUnsorted(p) ==
    LET byName == PickleFilesFrom(p, 1)
    IN [k \in 1..Len(byName) |-> byName[Len(byName) + 1 - k]]

PickleFiles(p) == PickleFilesFrom(p, 1)

\* Faulty variant: the artifact is not read, no date counts as processed
ProcessedDatesNone(artifact) == {}

\* Faulty variant: the first row is taken for the header line
ProcessedDatesSkipFirst(artifact) ==
    {artifact.rows[k].date : k \in 2..Len(artifact.rows)}

\* _get_processed_dates_from_csv: the date column of the artifact.
ProcessedDates(artifact) == {artifact.rows[k].date : k \in 1..Len(artifact.rows)}

\* Faulty variant: only the files after the newest processed date are taken
ToProcessAfterNewest(p, processed_dates) ==
    SelectSeq(PickleFiles(p),
              LAMBDA f : \A d \in processed_dates : f.name > d)

\* The loop of lines 70-105: the files still to be processed ...
ToProcess(p, processed_dates) ==
    SelectSeq(PickleFiles(p), LAMBDA f : f.name \notin processed_dates)
\* ... pickle.load raises on a file that holds no pickle ...
LoadRaises(pickle_files) ==
    \E k \in 1..Len(pickle_files) : pickle_files[k].kind = "truncated"
\* ... a record without 'date' is skipped, the others give a row each.
RECURSIVE RowsOf(_)
RowsOf(pickle_files) ==
    IF pickle_files = <<>> THEN <<>>
    ELSE (IF pickle_files[1].kind = "daily_data"
          THEN <<Row(pickle_files[1])>> ELSE <<>>) \o RowsOf(Tail(pickle_files))

\* Faulty variant: the last byte of the artifact is not looked at
NeedsNewlineNever(artifact) == FALSE

\* needs_newline = last_char != b'\n'
NeedsNewline(artifact) == ~artifact.newline

\* A row written onto an unterminated line continues that line.
Glue(row, next) == [row EXCEPT !.rest = next.date]

\* Faulty variant: the artifact is opened with 'w', the new rows replace it
AppendRowsTruncating(artifact, all_data, needs_newline) ==
    [exists |-> TRUE, rows |-> all_data, newline |-> TRUE]

\* open(csv_path, 'a'): '\n' if needed, then writer.writerows(all_data).
AppendRows(artifact, all_data, needs_newline) ==
    IF artifact.newline \/ needs_newline
    THEN [exists |-> TRUE, rows |-> artifact.rows \o all_data, newline |-> TRUE]
    ELSE [exists |-> TRUE,
          rows |-> SubSeq(artifact.rows, 1, Len(artifact.rows) - 1)
                   \o <<Glue(artifact.rows[Len(artifact.rows)], all_data[1])>>
                   \o Tail(all_data),
          newline |-> TRUE]

\* open(csv_path, 'w'): writeheader, writerows(all_data).
WriteCsv(all_data) == [exists |-> TRUE, rows |-> all_data, newline |-> TRUE]

\* The full rewrite reads data['date'] of every file: a record without it raises.
ReloadRaises(pickle_files) ==
    \E k \in 1..Len(pickle_files) : pickle_files[k].kind # "daily_data"

\* process_to_csv(chokepoint, variable, incremental): what it does to the
\* artifact, to the processing metadata and what it returns.
ProcessToCsvBody(p, incremental) ==
    LET processed_dates ==
            IF incremental /\ csv[p].exists THEN ProcessedDates(csv[p]) ELSE {}
        pickle_files == ToProcess(p, processed_dates)
        all_data == RowsOf(pickle_files)
        raised == [called |-> TRUE, op |-> "csv", pair |-> p,
                   incremental |-> incremental,
                   status |-> "raised", before |-> csv[p]]
        returned == [raised EXCEPT !.status = "returned"]
    IN
    IF ~dataDir[p] \/ files[p] = {} \/ LoadRaises(pickle_files)
    THEN /\ render' = raised
         /\ UNCHANGED <<csv, procMeta>>
    ELSE IF incremental /\ csv[p].exists /\ Len(all_data) > 0
    THEN /\ csv' = [csv EXCEPT ![p] = AppendRows(@, all_data, NeedsNewline(@))]
         /\ procMeta' = [procMeta EXCEPT ![p].csv = Len(all_data)]
         /\ render' = returned
    ELSE IF Len(all_data) > 0
    THEN IF ReloadRaises(PickleFiles(p))
         THEN /\ render' = raised
              /\ UNCHANGED <<csv, procMeta>>
         ELSE /\ csv' = [csv EXCEPT ![p] = WriteCsv(RowsOf(PickleFiles(p)))]
              /\ procMeta' = [procMeta EXCEPT ![p].csv = Len(RowsOf(PickleFiles(p)))]
              /\ render' = returned
    ELSE /\ procMeta' = [procMeta EXCEPT ![p].csv = 0]
         /\ render' = returned
         /\ UNCHANGED csv

\* Faulty variant: the processing metadata is written over _metadata.json of
\* the data directory
ProcessToCsvInDataDir(p, incremental) ==
    /\ ProcessToCsvBody(p, incremental)
    /\ IF render'.status = "returned"
       THEN meta' = [meta EXCEPT ![p] = CorruptMeta]
       ELSE UNCHANGED meta
    /\ UNCHANGED <<files, dataDir, upstream, now, run, gapVars, json, sched>>

ProcessToCsv(p, incremental) ==
    /\ ProcessToCsvBody(p, incremental)
    /\ UNCHANGED <<storeVars, gapVars, json, sched>>

\* The entry of the JSON output made from a stored daily_data.
Entry(data) ==
    [date |-> data.date, vessel_count |-> data.vessel_count,
     collected_at |-> data.collected_at]

RECURSIVE EntriesOf(_)
EntriesOf(pickle_files) ==
    IF pickle_files = <<>> THEN <<>>
    ELSE <<Entry(pickle_files[1])>> \o EntriesOf(Tail(pickle_files))

\* json.dump(output, f): 'data' of the records format is the list of the
\* entries in file order; 'timeseries' is the mapping from date to entry.
WriteJson(format, entries) ==
    [exists |-> TRUE, format |-> format,
     data |-> IF format = "records" THEN entries
              ELSE [d \in {entries[k].date : k \in 1..Len(entries)} |->
                       CHOOSE e \in {entries[k] : k \in 1..Len(entries)} : e.date = d]]

\* process_to_json(chokepoint, variable, format): both formats load every
\* file and read data['date'], data['vessel_count'], ... of it, so a file
\* that holds no pickle, or a record without those keys, raises; the output
\* is written after the loop.
ProcessToJson(p, format) ==
    LET pickle_files == PickleFiles(p)
        raised == [called |-> TRUE, op |-> "json", pair |-> p,
                   incremental |-> FALSE,
                   status |-> "raised", before |-> csv[p]]
        returned == [raised EXCEPT !.status = "returned"]
    IN
    /\ IF ~dataDir[p] \/ files[p] = {} \/ ReloadRaises(pickle_files)
       THEN /\ render' = raised
            /\ UNCHANGED <<json, procMeta>>
       ELSE /\ json' = [json EXCEPT ![p] = WriteJson(format, EntriesOf(pickle_files))]
            /\ procMeta' = [procMeta EXCEPT ![p].json = Len(pickle_files)]
            /\ render' = returned
    /\ UNCHANGED <<storeVars, gapVars, csv, sched>>

\* The rows of the files F whose date is in D, by date.
RECURSIVE RowsByDate(_, _, _)
RowsByDate(F, D, d) ==
    IF d > MaxDate THEN <<>>
    ELSE (IF d \in D /\ \E f \in F : f.date = d
          THEN <<Row(CHOOSE f \in F : f.date = d)>> ELSE <<>>)
         \o RowsByDate(F, D, d + 1)

\* The artifacts earlier renders of the directory can have left: none, or
\* rows of some of the stored Observations; the last line may have lost its
\* newline (an artifact saved by another tool), the case lines 111-120 are for.
Artifacts(F) ==
    {NoCsv} \cup
    {[exists |-> TRUE, rows |-> RowsByDate(F, D, 1), newline |-> nl] :
        D \in (SUBSET {f.date : f \in F}) \ {{}}, nl \in BOOLEAN}

\* The directories the renders are written for: besides what Directories
\* holds, a file can be a pickled mapping without 'date' (what the
\* non-timeseries branch of save_data stores), the record lines 85-88 skip.
RenderDirectories ==
    UNION {{F \cup {RawDataFile(d, [timestamp |-> 1]) : d \in M} :
                M \in SUBSET (Dates \ {f.name : f \in F})} : F \in Directories}

\* Renders of the stored files of a pair.
InitRender ==
    /\ missing = NoCall
    /\ scan = IdleScan
    /\ files \in [Pairs -> RenderDirectories]
    /\ files["p2"] = {}
    /\ dataDir \in [Pairs -> BOOLEAN]
    /\ \A p \in Pairs : files[p] # {} => dataDir[p]
    /\ ~dataDir["p2"]
    /\ csv \in [Pairs -> Artifacts({f \in files["p1"] : f.kind = "daily_data"})]
    /\ csv["p2"] = NoCsv
    /\ json = [p \in Pairs |-> NoJson]
    /\ procMeta = [p \in Pairs |-> NoProcMeta]
    /\ render = NoRender
    /\ sched = IdleSched
    /\ meta = [p \in Pairs |-> NoMeta]
    /\ upstream = [p \in Pairs |-> {}]
    /\ now = 0
    /\ run = [r \in Runs |-> IdleRun(IF r = "r1" THEN "p1" ELSE "p2")]

NextRender ==
    \/ \E incremental \in BOOLEAN : ProcessToCsv("p1", incremental)
    \/ \E format \in {"records", "timeseries"} : ProcessToJson("p1", format)

SpecRender == InitRender /\ [][NextRender]_vars

\* ---------------------------------------------------------- the scheduler
\* The collect call that serves the jobs of a pair.
RunOf(p) == IF p = "p1" THEN "r1" ELSE "r2"

\* The (chokepoint, variable) entries of one state_variables.json, in key order.
RECURSIVE ConfigEntries(_, _)
ConfigEntries(chokepoint, k) ==
    IF k > Len(StateVariables(chokepoint)) THEN <<>>
    ELSE <<PairId(chokepoint, StateVariables(chokepoint)[k])>>
         \o ConfigEntries(chokepoint, k + 1)

\* load_all_configs: the entries of every chokepoint directory that has a
\* state_variables.json, except those whose file failed to load (unloaded).
RECURSIVE LoadAllConfigs(_, _)
LoadAllConfigs(order, unloaded) ==
    IF order = <<>> THEN <<>>
    ELSE (IF HasConfig(order[1]) /\ order[1] \notin unloaded
          THEN ConfigEntries(order[1], 1) ELSE <<>>)
         \o LoadAllConfigs(Tail(order), unloaded)

\* run_once_now: configs = self.load_all_configs()
RunOnceNow ==
    /\ sched.pc = "idle"
    /\ \E order \in IterDir, unloaded \in SUBSET {c \in Chokepoints : HasConfig(c)} :
          sched' = [IdleSched EXCEPT !.pc = "job",
                                     !.configs = LoadAllConfigs(order, unloaded)]
    /\ UNCHANGED <<storeVars, gapVars, viewVars>>

\* The job the loop of run_once_now is at.
JobPending == sched.pc = "job" /\ sched.k <= Len(sched.configs)
JobRun == RunOf(sched.configs[sched.k])

\* collect_data: data = self.collector.collect(chokepoint, variable)
JobCollect ==
    /\ JobPending
    /\ run[JobRun].pc = "idle"
    /\ Begin(JobRun, TRUE)

\* collect_data: self.processor.process_to_csv(chokepoint, variable); whether
\* it returns or raises (except Exception: print), the job is over.
JobRender ==
    /\ JobPending
    /\ run[JobRun].pc = "returned"
    /\ ProcessToCsvBody(sched.configs[sched.k], TRUE)
    /\ sched' = [sched EXCEPT !.k = @ + 1]
    /\ UNCHANGED <<storeVars, gapVars, json>>

\* Faulty variant: the exception of one job leaves the loop over the jobs
JobExceptAbort ==
    /\ JobPending
    /\ run[JobRun].pc = "raised"
    /\ sched' = [sched EXCEPT !.pc = "done"]
    /\ UNCHANGED <<storeVars, gapVars, viewVars>>

\* collect_data: collect raised; except Exception as e: print, next job.
JobExcept ==
    /\ JobPending
    /\ run[JobRun].pc = "raised"
    /\ sched' = [sched EXCEPT !.k = @ + 1]
    /\ UNCHANGED <<storeVars, gapVars, viewVars>>

\* The loop over configs is exhausted.
JobsDone ==
    /\ sched.pc = "job"
    /\ sched.k > Len(sched.configs)
    /\ sched' = [sched EXCEPT !.pc = "done"]
    /\ UNCHANGED <<storeVars, gapVars, viewVars>>

\* What each source exposes when the scheduler runs.
Layers == {S \in SUBSET DailyRecords : Cardinality(S) <= MaxUpstream}

\* scheduler.py --once on an empty data tree.
InitBatch ==
    /\ InitOthers
    /\ files = [p \in Pairs |-> {}]
    /\ meta = [p \in Pairs |-> NoMeta]
    /\ dataDir = [p \in Pairs |-> FALSE]
    /\ upstream \in [Pairs -> Layers]
    /\ now = 0
    /\ run = [r \in Runs |-> IdleRun(IF r = "r1" THEN "p1" ELSE "p2")]

NextBatch ==
    \/ RunOnceNow
    \/ JobCollect
    \/ JobPending /\ FetchOk(JobRun)
    \/ JobPending /\ FetchFail(JobRun)
    \/ JobPending /\ SaveData(JobRun)
    \/ JobPending /\ Check(JobRun)
    \/ JobPending /\ Write(JobRun)
    \/ JobPending /\ WriteFail(JobRun)
    \/ JobPending /\ UpdateMetadata(JobRun)
    \/ JobPending /\ UpdateMetadataFail(JobRun)
    \/ JobRender
    \/ JobExcept
    \/ JobsDone

SpecBatch == InitBatch /\ [][NextBatch]_vars

\* ------------------------------------------------- the scheduled jobs
\* The names as they are spelled in paths and job ids.
Spelling(name) ==
    <<SubSeq(name, 1, 1), SubSeq(name, 2, 2)>>
ChokepointOf(p) == "c1"
VariableOf(p) == IF p = "p1" THEN "v1" ELSE "v2"

\* id=f"{chokepoint}_{variable}"
JobId(p) == Spelling(ChokepointOf(p)) \o <<"_">> \o Spelling(VariableOf(p))

\* add_job(..., id=..., replace_existing=True): a job of that id is replaced.
AddJob(jobs, id, p) ==
    [x \in (DOMAIN jobs) \cup {id} |-> IF x = id THEN p ELSE jobs[x]]

RECURSIVE AddJobs(_, _)
AddJobs(jobs, configs) ==
    IF configs = <<>> THEN jobs
    ELSE AddJobs(AddJob(jobs, JobId(configs[1]), configs[1]), Tail(configs))

\* schedule_all: one add_job per entry of load_all_configs().
ScheduleAll ==
    /\ sched.pc = "idle"
    /\ \E order \in IterDir, unloaded \in SUBSET {c \in Chokepoints : HasConfig(c)} :
          LET configs == LoadAllConfigs(order, unloaded)
              jobs == AddJobs(<<>>, configs)
          IN sched' = [IdleSched EXCEPT
                          !.pc = "scheduled", !.configs = configs, !.jobs = jobs,
                          !.instances = [id \in DOMAIN jobs |-> 0]]
    /\ UNCHANGED <<storeVars, gapVars, viewVars>>

\* start: self.scheduler.start()
Start ==
    /\ sched.pc = "scheduled"
    /\ sched' = [sched EXCEPT !.pc = "started"]
    /\ UNCHANGED <<storeVars, gapVars, viewVars>>

\* max_instances of a job: BlockingScheduler() is built without job_defaults.
MaxInstances == 1

\* Faulty variant: the executor admits a second instance of a running job
FireUnlimited(id) ==
    /\ sched.pc = "started"
    /\ sched.instances[id] < 2
    /\ sched' = [sched EXCEPT !.instances[id] = @ + 1]
    /\ UNCHANGED <<storeVars, gapVars, viewVars>>

\* The trigger of job id fires: the executor runs collect_data in a worker
\* thread unless max_instances of the job are running (the run is skipped).
Fire(id) ==
    /\ sched.pc = "started"
    /\ sched.instances[id] < MaxInstances
    /\ sched' = [sched EXCEPT !.instances[id] = @ + 1]
    /\ UNCHANGED <<storeVars, gapVars, viewVars>>

\* The worker of job id and the collect call it makes.
Working(id) == sched.pc = "started" /\ sched.instances[id] > 0
WorkerRun(id) == RunOf(sched.jobs[id])

\* collect_data: data = self.collector.collect(chokepoint, variable)
WorkerCollect(id) ==
    /\ Working(id)
    /\ run[WorkerRun(id)].pc = "idle"
    /\ Begin(WorkerRun(id), TRUE)

\* collect_data: process_to_csv returns or raises (caught); the instance ends.
WorkerRender(id) ==
    /\ Working(id)
    /\ run[WorkerRun(id)].pc = "returned"
    /\ ProcessToCsvBody(sched.jobs[id], TRUE)
    /\ run' = [run EXCEPT ![WorkerRun(id)] = IdleRun(sched.jobs[id])]
    /\ sched' = [sched EXCEPT !.instances[id] = @ - 1]
    /\ UNCHANGED <<files, meta, dataDir, upstream, now, gapVars, json>>

\* collect_data: collect raised; except Exception: print; the instance ends.
WorkerExcept(id) ==
    /\ Working(id)
    /\ run[WorkerRun(id)].pc = "raised"
    /\ run' = [run EXCEPT ![WorkerRun(id)] = IdleRun(sched.jobs[id])]
    /\ sched' = [sched EXCEPT !.instances[id] = @ - 1]
    /\ UNCHANGED <<files, meta, dataDir, upstream, now, gapVars, viewVars>>

\* What each source exposes while the scheduler runs.
ScheduleLayers == {S \in Layers : Cardinality(S) <= 1}

\* scheduler.py --start on an empty data tree.
InitSchedule ==
    /\ InitOthers
    /\ files = [p \in Pairs |-> {}]
    /\ meta = [p \in Pairs |-> NoMeta]
    /\ dataDir = [p \in Pairs |-> FALSE]
    /\ upstream \in [Pairs -> ScheduleLayers]
    /\ now = 0
    /\ run = [r \in Runs |-> IdleRun(IF r = "r1" THEN "p1" ELSE "p2")]

NextSchedule ==
    \/ ScheduleAll
    \/ Start
    \/ \E id \in DOMAIN sched.jobs : Fire(id)
    \/ \E id \in DOMAIN sched.jobs : WorkerCollect(id)
    \/ \E id \in DOMAIN sched.jobs : Working(id) /\ FetchOk(WorkerRun(id))
    \/ \E id \in DOMAIN sched.jobs : Working(id) /\ FetchFail(WorkerRun(id))
    \/ \E id \in DOMAIN sched.jobs : Working(id) /\ SaveData(WorkerRun(id))
    \/ \E id \in DOMAIN sched.jobs : Working(id) /\ Check(WorkerRun(id))
    \/ \E id \in DOMAIN sched.jobs : Working(id) /\ Write(WorkerRun(id))
    \/ \E id \in DOMAIN sched.jobs : Working(id) /\ WriteFail(WorkerRun(id))
    \/ \E id \in DOMAIN sched.jobs : Working(id) /\ UpdateMetadata(WorkerRun(id))
    \/ \E id \in DOMAIN sched.jobs : Working(id) /\ UpdateMetadataFail(WorkerRun(id))
    \/ \E id \in DOMAIN sched.jobs : WorkerRender(id)
    \/ \E id \in DOMAIN sched.jobs : WorkerExcept(id)

SpecSchedule == InitSchedule /\ [][NextSchedule]_vars

\* ------------------------------------------- the readers of a store at rest
\* The Watermarks collects can have left beside the files F: none, or one
\* whose latest_date names a file (the last record of a batch was written,
\* or skipped because its file existed).
Watermarks(F) == {NoMeta} \cup {Metadata(f.name, 1) : f \in F}

\* The gap detector and the two renders on the store of a pair.
InitReaders ==
    /\ InitOthers
    /\ files \in [Pairs -> Directories]
    /\ files["p2"] = {}
    /\ dataDir \in [Pairs -> BOOLEAN]
    /\ \A p \in Pairs : files[p] # {} => dataDir[p]
    /\ meta \in [Pairs -> Watermarks(files["p1"])]
    /\ meta["p2"] = NoMeta
    /\ upstream = [p \in Pairs |-> {}]
    /\ now = 0
    /\ run = [r \in Runs |-> IdleRun(IF r = "r1" THEN "p1" ELSE "p2")]

NextReaders ==
    \/ \E p \in Pairs : GetMissingDatesCall(p)
    \/ \E p \in Pairs : NeedsBackfill(p)
    \/ ScanStart
    \/ ScanNoConfig
    \/ ScanLoadConfig
    \/ ScanLoadConfigFail
    \/ ScanVariable
    \/ ScanVariableFail
    \/ ScanReturn
    \/ \E incremental \in BOOLEAN : ProcessToCsv("p1", incremental)
    \/ \E format \in {"records", "timeseries"} : ProcessToJson("p1", format)

SpecReaders == InitReaders /\ [][NextReaders]_vars

\* ------------------------------------------------ collects and renders
\* Collects of a pair and, between them, renders of its CSV (process_data.py,
\* or the render that follows the collect in collect_data).
RenderBetween(p) ==
    /\ \A r \in Runs : run[r].pair = p => Finished(r)
    /\ \E incremental \in BOOLEAN : ProcessToCsv(p, incremental)

NextPipeline ==
    \/ Publish("p1")
    \/ Withdraw("p1")
    \/ Step("r1")
    \/ RenderBetween("p1")

SpecPipeline == Init /\ [][NextPipeline]_vars

\* --------------------------------------------------- concurrent collects
\* Collection tasks of the two pairs running at the same time (two jobs of
\* the scheduler's pool, or two processes), on an empty data tree: the steps
\* of the two calls interleave freely.
\* collect_data: self.collector.collect(chokepoint, variable), once per pair.
ConcurrentCollect(r) ==
    /\ run[r].pc = "idle"
    /\ Begin(r, TRUE)

NextConcurrent ==
    \/ \E r \in Runs : ConcurrentCollect(r)
    \/ \E r \in Runs : FetchOk(r)
    \/ \E r \in Runs : FetchFail(r)
    \/ \E r \in Runs : SaveData(r)
    \/ \E r \in Runs : Check(r)
    \/ \E r \in Runs : Write(r)
    \/ \E r \in Runs : WriteFail(r)
    \/ \E r \in Runs : UpdateMetadata(r)
    \/ \E r \in Runs : UpdateMetadataFail(r)

SpecConcurrent == InitBatch /\ [][NextConcurrent]_vars


\* Two collects of the SAME pair in flight (the scheduler's job and a manual
\* main.py, two processes on one data tree): both runs work on p1 and their
\* steps interleave freely, the existence check and the write of a record
\* being separate steps.
InitSamePair ==
    /\ InitOthers
    /\ files = [p \in Pairs |-> {}]
    /\ meta = [p \in Pairs |-> NoMeta]
    /\ dataDir = [p \in Pairs |-> FALSE]
    /\ upstream \in [Pairs -> Layers]
    /\ upstream["p2"] = {}
    /\ now = 0
    /\ run = [r \in Runs |-> IdleRun("p1")]

SpecSamePair == InitSamePair /\ [][NextConcurrent]_vars

\* ------------------------------------------- a collect on a store at rest
\* One incremental collect of the pair on a directory and Watermark that
\* earlier collects have left (the states of InitReaders), while the source
\* publishes and withdraws features.
ResumeCollect == run["r1"].pc = "idle" /\ Begin("r1", TRUE)

NextResume ==
    \/ Publish("p1")
    \/ Withdraw("p1")
    \/ ResumeCollect
    \/ FetchOk("r1")
    \/ FetchFail("r1")
    \/ SaveData("r1")
    \/ Check("r1")
    \/ Write("r1")
    \/ WriteFail("r1")
    \/ UpdateMetadata("r1")
    \/ UpdateMetadataFail("r1")

SpecResume == InitReaders /\ [][NextResume]_vars


\* --------------------------------------- the scheduled collect, repeated
\* The interval job calls collect (incremental) again and again on a source
\* that has stopped publishing: upstream is drawn once and never changes.
\* The store starts as earlier collects left it: Observations of some of the
\* source's dates, written before the clock starts, and the Watermark at the
\* newest of them.
Epoch == 0
EarlierFiles(D) ==
    {DailyData(d, [date |-> d, vessel_count |-> 1], [timestamp |-> Epoch]) : d \in D}

InitLive ==
    /\ InitOthers
    /\ upstream \in [Pairs -> SUBSET DailyRecords]
    /\ upstream["p1"] # {}
    /\ upstream["p2"] = {}
    /\ \E D \in SUBSET {x.date : x \in upstream["p1"]} :
          /\ files = [p \in Pairs |-> IF p = "p1" THEN EarlierFiles(D) ELSE {}]
          /\ meta = [p \in Pairs |->
                        IF p = "p1" /\ D # {}
                        THEN Metadata(MaxOf(D), Epoch) ELSE NoMeta]
          /\ dataDir = [p \in Pairs |-> p = "p1" /\ D # {}]
    /\ now = 0
    /\ run = [r \in Runs |-> IdleRun(IF r = "r1" THEN "p1" ELSE "p2")]

\* The clock of the bounded model stops at MaxCollects; the job keeps firing.
Tick == IF now < MaxCollects THEN now + 1 ELSE now

\* collect_data: self.collector.collect(chokepoint, variable), as Begin with
\* incremental = TRUE, at every firing of the job.
ScheduledCollect ==
    LET r == "r1"
        p == run[r].pair IN
    /\ Finished(r)
    /\ now' = Tick
    /\ IF meta[p].state = "corrupt"
       THEN run' = [run EXCEPT ![r] =
                [IdleRun(p) EXCEPT !.pc = "raised", !.t = Tick,
                                   !.incremental = TRUE,
                                   !.pre_files = files[p], !.pre_meta = meta[p]]]
       ELSE run' = [run EXCEPT ![r] =
                [IdleRun(p) EXCEPT !.pc = "fetch", !.t = Tick,
                                   !.incremental = TRUE,
                                   !.start_date = StartDate(TRUE, meta[p]),
                                   !.pre_files = files[p], !.pre_meta = meta[p]]]
    /\ UNCHANGED <<files, meta, dataDir, upstream>>
    /\ UNCHANGED others

\* The fetcher fails only while the clock runs: from some collect on every
\* fetch succeeds. (The writes of this specification never fail.)
MayFail == now < MaxCollects

\* The steps of the job that are always possible ...
LiveRun ==
    \/ ScheduledCollect
    \/ FetchOk("r1")
    \/ SaveData("r1")
    \/ Check("r1")
    \/ Write("r1")
    \/ UpdateMetadata("r1")

NextLive ==
    \/ ScheduledCollect
    \/ FetchOk("r1")
    \/ MayFail /\ FetchFail("r1")
    \/ SaveData("r1")
    \/ Check("r1")
    \/ Write("r1")
    \/ UpdateMetadata("r1")

\* ... are taken: the scheduler fires the job at every interval and a collect
\* under way runs to its end.
SpecLive == InitLive /\ [][NextLive]_vars /\ WF_vars(LiveRun)

\* ------------------------------------------------- the scheduled task
\* The task of one pair, repeated: a collect, then a render of its CSV, as
\* collect_data does with the default modes (incremental) and as main.py
\* followed by process_data.py does with either mode; the source changes
\* between two runs of the task.
TaskIdle == run["r1"].pc = "idle"

\* collect_data: data = self.collector.collect(chokepoint, variable)
TaskCollect ==
    /\ TaskIdle
    /\ \E incremental \in BOOLEAN : Begin("r1", incremental)

\* collect_data: csv_path = self.processor.process_to_csv(chokepoint, variable)
TaskRender ==
    /\ run["r1"].pc = "returned"
    /\ \E incremental \in BOOLEAN : ProcessToCsvBody("p1", incremental)
    /\ run' = [run EXCEPT !["r1"] = IdleRun("p1")]
    /\ UNCHANGED <<files, meta, dataDir, upstream, now, gapVars, json, sched>>

\* collect_data: except Exception as e: print
TaskExcept ==
    /\ run["r1"].pc = "raised"
    /\ run' = [run EXCEPT !["r1"] = IdleRun("p1")]
    /\ UNCHANGED <<files, meta, dataDir, upstream, now, gapVars, viewVars, sched>>

NextTask ==
    \/ TaskIdle /\ Publish("p1")
    \/ TaskIdle /\ Withdraw("p1")
    \/ TaskCollect
    \/ FetchOk("r1")
    \/ FetchFail("r1")
    \/ SaveData("r1")
    \/ Check("r1")
    \/ Write("r1")
    \/ WriteFail("r1")
    \/ UpdateMetadata("r1")
    \/ UpdateMetadataFail("r1")
    \/ TaskRender
    \/ TaskExcept

SpecTask == Init /\ [][NextTask]_vars

\* ================================================================= claims
PairOf(r) == run[r].pair
Batch(r) == run[r].data.time_series
BatchDates(r) == {Batch(r)[k].date : k \in 1..Len(Batch(r))}
UpstreamDates(p) == {x.date : x \in upstream[p]}
\* The Observations, and their dates, stored when the call of run r began.
PreObservations(r) == {f \in run[r].pre_files : f.kind = "daily_data"}
PreStoredDates(r) == {f.date : f \in PreObservations(r)}

\* C1: for every (chokepoint, variable, date), at most one Observation is
\* stored for that date, after any sequence of collect calls.
C1_NoDuplication ==
    \A p \in Pairs : \A f, g \in Observations(p) : f.date = g.date => f = g

\* A collect returned after it met a date that was already stored, in a batch
\* that held two features of one date.
C1_Witness ==
    \E r \in Runs :
        /\ run[r].pc = "returned"
        /\ run[r].skipped_count > 0
        /\ \E j, k \in 1..Len(Batch(r)) : j # k /\ Batch(r)[j].date = Batch(r)[k].date
        /\ Observations(PairOf(r)) # {}

\* C2 (as claimed): a collect to which the source has nothing new to give
\* (every date it returns is already stored) writes nothing and leaves the
\* Watermark (latest_date and last_updated) as it was; so do two such calls
\* in a row.
C2_Idempotence ==
    \A r \in Runs :
        (/\ run[r].pc = "returned"
         /\ run[r].data.status = "success"
         /\ BatchDates(r) \subseteq PreStoredDates(r))
        => /\ run[r].saved_count = 0
           /\ meta[PairOf(r)] = run[r].pre_meta

\* C3 (as claimed): the Watermark's latest_date never decreases.
C3_WatermarkMonotone ==
    [][\A p \in Pairs :
          (meta[p].state = "ok" /\ meta'[p].state = "ok")
          => meta'[p].latest_date >= meta[p].latest_date]_vars

\* C4: a stored Observation is never mutated or deleted: every step leaves
\* each stored Observation in place with the content it had.
C4_ObservationsImmutable ==
    [][\A p \in Pairs : \A f \in Observations(p) : f \in files'[p]]_vars

\* A collect returned after skipping a date whose stored figure differs from
\* the one the source now exposes for it.
C4_Witness ==
    \E r \in Runs :
        /\ run[r].pc = "returned"
        /\ \E k \in 1..Len(Batch(r)) : \E f \in PreObservations(r) :
              /\ f.date = Batch(r)[k].date
              /\ f.vessel_count # Batch(r)[k].vessel_count
              /\ f \in files[PairOf(r)]

\* C5: when the fetcher fails, collect hands back a result with status error
\* and no observations instead of raising; no file is written, the Watermark
\* is untouched, and a next collect of the same mode computes the start_date
\* (rangeHint) the failed one used.
C5_FetchFailure ==
    \A r \in Runs :
        run[r].data.status = "error"
        => /\ run[r].pc \in {"save", "returned"}
           /\ Batch(r) = <<>>
           /\ files[PairOf(r)] = run[r].pre_files
           /\ meta[PairOf(r)] = run[r].pre_meta
           /\ StartDate(run[r].incremental, meta[PairOf(r)]) = run[r].start_date

\* An incremental collect on a pair that has a Watermark returned the error
\* result of a failed fetch, while the source had data past the Watermark.
C5_Witness ==
    \E r \in Runs :
        /\ run[r].pc = "returned"
        /\ run[r].data.status = "error"
        /\ run[r].incremental
        /\ run[r].start_date # None
        /\ \E x \in upstream[PairOf(r)] : x.date >= run[r].start_date

\* C6: a successful fetch of zero records is a normal outcome: the call
\* returns, writes no file and leaves the Watermark exactly as it was.
C6_ZeroRecords ==
    \A r \in Runs :
        (run[r].data.status = "success" /\ Batch(r) = <<>>)
        => /\ run[r].pc \in {"save", "returned"}
           /\ run[r].saved_count = 0
           /\ files[PairOf(r)] = run[r].pre_files
           /\ meta[PairOf(r)] = run[r].pre_meta

\* An incremental collect returned with zero records from a source that
\* exposes features, all of them at or before the Watermark.
C6_Witness ==
    \E r \in Runs :
        /\ run[r].pc = "returned"
        /\ run[r].data.status = "success"
        /\ Batch(r) = <<>>
        /\ upstream[PairOf(r)] # {}
        /\ meta[PairOf(r)].state = "ok"

\* C7: within one collect the Watermark is written only after every write of
\* the batch: while a record of the batch is still to be examined or written
\* the Watermark is the one the call found, and once it differs every date
\* of the batch has its file.
C7_WatermarkAfterWrites ==
    \A r \in Runs :
        /\ run[r].pc \in {"fetch", "save", "loop", "write", "metadata"}
           => meta[PairOf(r)] = run[r].pre_meta
        /\ (run[r].pc \in {"returned", "raised"}
             /\ meta[PairOf(r)] # run[r].pre_meta)
           => /\ run[r].i = Len(Batch(r)) + 1
              /\ \A k \in 1..Len(Batch(r)) :
                    Exists(PairOf(r), FileName(Batch(r)[k]))

\* A write of the batch is pending after an earlier record of it was written.
C7_Witness ==
    \E r \in Runs :
        /\ run[r].pc = "write"
        /\ run[r].saved_count > 0
        /\ run[r].i <= Len(Batch(r))

\* The Observations this call of collect has written.
WrittenBy(r) ==
    {f \in Observations(PairOf(r)) \ run[r].pre_files :
        f.collected_at = run[r].data.timestamp}

\* C8: when a write of an Observation fails, the call raises at once (no
\* later record of the batch is written), the Watermark keeps the value it
\* had before the call, and the next incremental collect asks for the range
\* the failed one asked for.
C8_WriteFailure ==
    \A r \in Runs :
        (run[r].failed_at # None /\ run[r].failed_at <= Len(Batch(r)))
        => /\ run[r].pc = "raised"
           /\ run[r].i = run[r].failed_at
           /\ meta[PairOf(r)] = run[r].pre_meta
           /\ \A f \in WrittenBy(r) : f.date < Batch(r)[run[r].failed_at].date
           /\ run[r].incremental
              => StartDate(TRUE, meta[PairOf(r)]) = run[r].start_date

\* An incremental collect past a Watermark wrote one record and failed on
\* the next.
C8_Witness ==
    \E r \in Runs :
        /\ run[r].pc = "raised"
        /\ run[r].failed_at # None
        /\ run[r].failed_at <= Len(Batch(r))
        /\ run[r].saved_count > 0
        /\ run[r].incremental
        /\ run[r].start_date # None

\* C9 (as claimed): after a write failure exactly the Observations written
\* before it are added to the store, and a collect that returns (the retry
\* among them) leaves every date of its batch stored exactly once, holding
\* what the source gave for that date.
C9_PartialFailureRetry ==
    \A r \in Runs :
        /\ (run[r].failed_at # None /\ run[r].failed_at <= Len(Batch(r)))
           => /\ Observations(PairOf(r)) = PreObservations(r) \cup WrittenBy(r)
              /\ Cardinality(WrittenBy(r)) = run[r].saved_count
        /\ (run[r].pc = "returned" /\ run[r].data.status = "success")
           => \A k \in 1..Len(Batch(r)) :
                 /\ Cardinality({f \in Observations(PairOf(r)) :
                                    f.date = Batch(r)[k].date}) = 1
                 /\ \A f \in WrittenBy(r) :
                       f.date = Batch(r)[k].date
                       => \E j \in 1..Len(Batch(r)) :
                             /\ Batch(r)[j].date = f.date
                             /\ Batch(r)[j].vessel_count = f.vessel_count

\* C10 (as claimed): whenever a Watermark exists, an Observation is stored
\* for its latest_date.
C10_WatermarkOnDisk ==
    \A p \in Pairs :
        meta[p].state = "ok" => meta[p].latest_date \in StoredDates(p)
C16_RangeHint ==
    \A r \in Runs :
        run[r].pc \in {"fetch", "save", "loop", "write", "metadata", "returned"}
        => /\ run[r].pre_meta.state # "corrupt" \/ ~run[r].incremental
           /\ run[r].start_date =
                 IF run[r].incremental /\ run[r].pre_meta.state = "ok"
                 THEN run[r].pre_meta.latest_date + 1
                 ELSE None

\* An incremental collect on a pair whose Watermark exists has fetched.
C16_Witness ==
    \E r \in Runs :
        /\ run[r].pc = "save"
        /\ run[r].incremental
        /\ run[r].pre_meta.state = "ok"
        /\ run[r].start_date = run[r].pre_meta.latest_date + 1
        /\ run[r].data.status = "success"

\* C18 (as claimed): a collect updates the Watermark only if it newly wrote
\* at least one Observation: a collect whose non-empty batch consists
\* entirely of dates that were already stored returns with saved_count = 0
\* and leaves latest_date and last_updated as they were.
C18_WatermarkOnlyOnWrite ==
    \A r \in Runs :
        (/\ run[r].pc = "returned"
         /\ run[r].pre_meta.state = "ok"
         /\ Len(Batch(r)) > 0
         /\ BatchDates(r) \subseteq PreStoredDates(r))
        => /\ run[r].saved_count = 0
           /\ meta[PairOf(r)].latest_date = run[r].pre_meta.latest_date
           /\ meta[PairOf(r)].last_updated = run[r].pre_meta.last_updated

\* C20 (as claimed): whenever a Watermark exists, its latest_date is the
\* greatest date over the Observations stored for the pair (stated here for
\* the states in which the last collect of the pair has returned and every
\* file of the directory is a complete Observation).
C20_WatermarkIsStoredMax ==
    \A p \in Pairs :
        (/\ meta[p].state = "ok"
         /\ files[p] = Observations(p)
         /\ \A r \in Runs : run[r].pair = p => run[r].pc \in {"idle", "returned"})
        => /\ StoredDates(p) # {}
           /\ meta[p].latest_date = MaxOf(StoredDates(p))
\* C17: a collect for a chokepoint without configuration, or for a variable
\* absent from the chokepoint's configuration, fails for that call only: it
\* raises without invoking the fetcher, and no file, directory or Watermark
\* of any pair is created or changed.
C17_UnconfiguredCollect ==
    [][\A r \in Runs :
          (run'[r] # run[r] /\ run'[r].config_error # "none")
          => /\ run'[r].pc = "raised"
             /\ run'[r].data = NoData
             /\ files' = files
             /\ meta' = meta
             /\ dataDir' = dataDir]_vars

\* A collect for an unconfigured name has raised on a store that holds
\* Observations and a Watermark.
C17_Witness ==
    \E r \in Runs :
        /\ run[r].pc = "raised"
        /\ run[r].config_error # "none"
        /\ Observations("p1") # {}
        /\ meta["p1"].state = "ok"
C11_MissingDates ==
    missing.called
    => LET start == IF missing.start_date = None
                    THEN missing.today - DefaultDays ELSE missing.start_date
           result == missing.result
       IN /\ \A j, k \in 1..Len(result) : j < k => result[j] < result[k]
          /\ {result[k] : k \in 1..Len(result)} =
                {d \in start..missing.today : d \notin StoredDates(missing.pair)}

\* C12 (as claimed): in get_all_missing_dates a failure while scanning one
\* variable does not abort the scan of any other configured variable: every
\* other variable that has missing dates, those of the same chokepoint
\* included, is in the returned mapping with its missing dates.
C12_ScanIsolation ==
    (scan.pc = "done" /\ scan.unloaded = {})
    => \A chokepoint \in Chokepoints :
          \A k \in 1..Len(StateVariables(chokepoint)) :
             LET p == PairId(chokepoint, StateVariables(chokepoint)[k])
             IN (p \notin scan.failed
                   /\ GetMissingDates(p, None, scan.today) # <<>>)
                => scan.missing_data[p] = GetMissingDates(p, None, scan.today)
C13_BatchIsolation ==
    sched.pc = "done"
    => \A j \in 1..Len(sched.configs) :
          LET q == sched.configs[j]
              r == RunOf(q)
          IN /\ run[r].pc \in {"returned", "raised"}
             /\ (run[r].pc = "returned" /\ run[r].data.status = "success")
                => \A k \in 1..Len(Batch(r)) :
                      \E f \in Observations(q) : f.date = Batch(r)[k].date

\* The batch is over: the collection of the first variable raised on a write,
\* that of the second one stored its Observations and rendered them.
C13_Witness ==
    /\ sched.pc = "done"
    /\ Len(sched.configs) = 2
    /\ run[RunOf(sched.configs[1])].pc = "raised"
    /\ run[RunOf(sched.configs[1])].failed_at # None
    /\ run[RunOf(sched.configs[2])].pc = "returned"
    /\ run[RunOf(sched.configs[2])].saved_count >= 2
    /\ Cardinality(Observations(sched.configs[2])) >= 2
    /\ csv[sched.configs[2]].exists

\* C21 (as claimed): after a successful incremental collect, every date that
\* the source exposes and that is later than the Watermark held before the
\* call has a stored Observation, however many features the source lists
\* after that Watermark (stated for a call that found a readable Watermark
\* and a directory of complete Observations, at the step that returns).
C21_NoDateSkipped ==
    [][\A r \in Runs :
          (/\ run[r].pc \in {"save", "metadata"}
           /\ run'[r].pc = "returned"
           /\ run[r].incremental
           /\ run[r].data.status = "success"
           /\ run[r].pre_meta.state = "ok"
           /\ run[r].pre_meta.latest_date # None
           /\ run[r].pre_files = PreObservations(r))
          => \A d \in UpstreamDates(PairOf(r)) :
                d > run[r].pre_meta.latest_date => d \in StoredDates(PairOf(r))']_vars

\* The last record of the batch of run r that carries date d.
LastOfDate(r, d) ==
    Batch(r)[MaxOf({k \in 1..Len(Batch(r)) : Batch(r)[k].date = d})]

\* C22 (as claimed): when one fetch batch holds several records of the same
\* date (a date for which no file existed before the call), exactly one
\* Observation is stored for that date after the call and its content is
\* that of the last of those records in sorted order.
C22_LastSortedWins ==
    \A r \in Runs :
        run[r].pc = "returned" =>
            \A d \in BatchDates(r) :
                (/\ \A f \in run[r].pre_files : f.name # d
                 /\ \E j, k \in 1..Len(Batch(r)) :
                        j # k /\ Batch(r)[j].date = d /\ Batch(r)[k].date = d)
                => /\ Cardinality({f \in Observations(PairOf(r)) : f.date = d}) = 1
                   /\ \A f \in Observations(PairOf(r)) :
                        f.date = d => f.vessel_count = LastOfDate(r, d).vessel_count

\* The records of the batch of run r whose date had a stored Observation when
\* the loop examined them: stored before the call, or written for an earlier
\* record of the same batch.
StoredWhenExamined(r) ==
    {k \in 1..Len(Batch(r)) :
        \/ Batch(r)[k].date \in PreStoredDates(r)
        \/ \E j \in 1..(k - 1) : Batch(r)[j].date = Batch(r)[k].date}

\* C23 (as claimed): for a successful collect with a non-empty batch,
\* written + skipped is the number of records processed, skipped counts
\* exactly the records whose date was already stored when they were
\* examined, and written is the number of dates stored after the call that
\* were not stored before it.
C23_Counters ==
    \A r \in Runs :
        (run[r].pc = "returned" /\ Len(Batch(r)) > 0)
        => /\ run[r].saved_count + run[r].skipped_count = Len(Batch(r))
           /\ run[r].skipped_count = Cardinality(StoredWhenExamined(r))
           /\ run[r].saved_count =
                Cardinality(StoredDates(PairOf(r)) \ PreStoredDates(r))

\* C24 (as claimed): the result of get_missing_dates is determined by the
\* dates of the stored Observations and the range alone, whatever the
\* Watermark is: it lists the dates of the range without a stored
\* Observation, so every date of the range at or before the Watermark that
\* has no stored Observation is reported missing.
C24_WatermarkIndependent ==
    (missing.called /\ missing.op = "get_missing_dates")
    => LET p == missing.pair
           start == IF missing.start_date = None
                    THEN missing.today - DefaultDays ELSE missing.start_date
           reported == {missing.result[k] : k \in 1..Len(missing.result)}
       IN /\ reported = {d \in start..missing.today : d \notin StoredDates(p)}
          /\ \A d \in start..missing.today :
                (/\ meta[p].state = "ok"
                 /\ d <= meta[p].latest_date
                 /\ d \notin StoredDates(p))
                => d \in reported

\* C25: the Watermark and the stored Observations are changed only by
\* collect: every step of get_missing_dates, get_all_missing_dates,
\* needs_backfill, process_to_csv and process_to_json leaves the files, the
\* Watermark and the data directory of every pair as they were.
C25_ReadersChangeNothing ==
    [][/\ files' = files
       /\ meta' = meta
       /\ dataDir' = dataDir]_vars

\* needs_backfill has answered and both renders have produced their artifact
\* on a store that holds Observations and a Watermark.
C25_Witness ==
    /\ missing.called
    /\ missing.op = "needs_backfill"
    /\ csv["p1"].exists
    /\ json["p1"].exists
    /\ meta["p1"].state = "ok"
    /\ Cardinality(Observations("p1")) >= 2

\* The dates the JSON artifact carries.
JsonDates(artifact) ==
    IF artifact.format = "records"
    THEN {artifact.data[k].date : k \in 1..Len(artifact.data)}
    ELSE DOMAIN artifact.data

\* C28 (as claimed): a stored record that is malformed (a file that does not
\* unpickle to a mapping, or a mapping without the required fields) is
\* skipped by the render and never aborts it: on a directory that holds
\* files, process_to_csv (incremental or full) and process_to_json return,
\* and the artifact carries every stored Observation.
C28_MalformedSkipped ==
    LET p == render.pair IN
    (render.called /\ dataDir[p] /\ files[p] # {})
    => /\ render.status = "returned"
       /\ render.op = "csv" =>
             (StoredDates(p) # {} =>
                 csv[p].exists /\ StoredDates(p) \subseteq ProcessedDates(csv[p]))
       /\ render.op = "json" =>
             json[p].exists /\ StoredDates(p) \subseteq JsonDates(json[p])

C29_CsvAscending ==
    \A p \in Pairs :
        csv[p].exists =>
            \A j, k \in 1..Len(csv[p].rows) :
                j < k => csv[p].rows[j].date <= csv[p].rows[k].date

\* What a collect running alone leaves from the state it found and the batch
\* it fetched: the files it found, plus one Observation for each date of the
\* batch that had no file; the Watermark of the batch, if there is a batch.
FirstOfDate(r, d) ==
    Batch(r)[CHOOSE k \in 1..Len(Batch(r)) :
                /\ Batch(r)[k].date = d
                /\ \A j \in 1..(k - 1) : Batch(r)[j].date # d]
AloneFiles(r) ==
    run[r].pre_files \cup
    {DailyData(d, FirstOfDate(r, d), run[r].data) :
        d \in {e \in BatchDates(r) : \A f \in run[r].pre_files : f.name # e}}
AloneMeta(r) ==
    IF Len(Batch(r)) > 0
    THEN Metadata(MaxOf(BatchDates(r)), run[r].t) ELSE run[r].pre_meta

\* C26: collections of different pairs share no mutable state: no step of a
\* collect changes the files, the directory or the Watermark of a pair other
\* than its own, and under every interleaving of the steps of the two
\* collects each one returns with the stored state it produces when it runs
\* alone on what it found.
C26_PairsIndependent ==
    [][\A r \in Runs :
          /\ run'[r] # run[r] =>
                \A q \in Pairs \ {PairOf(r)} :
                    /\ files'[q] = files[q]
                    /\ meta'[q] = meta[q]
                    /\ dataDir'[q] = dataDir[q]
          /\ (run[r].pc # "returned" /\ run'[r].pc = "returned") =>
                /\ files'[PairOf(r)] = AloneFiles(r)'
                /\ meta'[PairOf(r)] = AloneMeta(r)']_vars

\* The two collects overlapped: the one that began second has returned with
\* its Observations and Watermark while the one that began first, having
\* written a file, is still in its loop.
C26_Witness ==
    \E r, s \in Runs :
        /\ PairOf(r) # PairOf(s)
        /\ run[r].pc = "returned"
        /\ run[r].saved_count >= 2
        /\ meta[PairOf(r)].state = "ok"
        /\ run[s].pc = "loop"
        /\ run[s].saved_count >= 1
        /\ run[s].t < run[r].t

\* The instances of collect_data running for pair p, over all jobs.
RECURSIVE SumInstances(_, _)
SumInstances(ids, p) ==
    IF ids = {} THEN 0
    ELSE LET id == CHOOSE x \in ids : TRUE
         IN (IF sched.jobs[id] = p THEN sched.instances[id] ELSE 0)
            + SumInstances(ids \ {id}, p)

C33_OneRowPerDate ==
    \A p \in Pairs :
        \A j, k \in 1..Len(csv[p].rows) :
            csv[p].rows[j].date = csv[p].rows[k].date => j = k

\* An incremental render has appended to an artifact that an earlier render
\* wrote, after collects of both modes, and the artifact holds several rows.
C33_Witness ==
    /\ render.called
    /\ render.incremental
    /\ render.status = "returned"
    /\ render.before.exists
    /\ Len(csv["p1"].rows) > Len(render.before.rows)
    /\ Len(csv["p1"].rows) >= 2
    /\ now = MaxCollects

\* The step of collect_data that ends the task without error: collect has
\* returned and process_to_csv returns.
TaskCompletes ==
    /\ run["r1"].pc = "returned"
    /\ run'["r1"].pc = "idle"
    /\ render'.status = "returned"

\* C34: whenever the scheduler's collect-then-render task of a pair completes
\* without error, the set of dates in the rendered CSV equals the set of dates
\* of the stored Observations of that pair.
C34_CsvDatesAreStoredDates ==
    [][TaskCompletes =>
          /\ csv'["p1"].exists
          /\ ProcessedDates(csv'["p1"]) = StoredDates("p1")']_vars
\* A scheduled task (incremental collect, incremental render) has completed
\* without error after an earlier one: its collect stored a new Observation
\* and its render appended the row to the artifact of the earlier task.
C34_Witness ==
    /\ run["r1"].pc = "idle"
    /\ now = MaxCollects
    /\ render.called /\ render.incremental /\ render.status = "returned"
    /\ render.before.exists
    /\ Len(csv["p1"].rows) > Len(render.before.rows)
    /\ ProcessedDates(csv["p1"]) = StoredDates("p1")
    /\ Cardinality(StoredDates("p1")) >= 2

\* The rows of an artifact, and the artifact a full render of the stored
\* files writes.
RowSet(artifact) == {artifact.rows[k] : k \in 1..Len(artifact.rows)}
FullRender(p) == WriteCsv(RowsOf(PickleFiles(p)))

\* C36: for any sequence of collect calls interleaved with incremental CSV
\* renders, the resulting CSV holds the same set of rows as a single full
\* render of the final Observation set would produce. (The render leaves the
\* stored files alone, so the full render is that of the files it started from.)
C36_IncrementalRefinesFull ==
    [][(TaskCompletes /\ render'.incremental) =>
          /\ files' = files
          /\ ~ReloadRaises(PickleFiles("p1"))
          /\ RowSet(csv'["p1"]) = RowSet(FullRender("p1"))]_vars
\* Two incremental renders have followed two collects: the second appended to
\* the artifact of the first, and the rows are those of a full render.
C36_Witness ==
    /\ run["r1"].pc = "idle"
    /\ now = MaxCollects
    /\ render.called /\ render.incremental /\ render.status = "returned"
    /\ render.before.exists
    /\ Len(render.before.rows) >= 1
    /\ Len(csv["p1"].rows) > Len(render.before.rows)
    /\ RowSet(csv["p1"]) = RowSet(FullRender("p1"))
    /\ \E j, k \in 1..Len(csv["p1"].rows) :
           csv["p1"].rows[j].collected_at # csv["p1"].rows[k].collected_at

\* The last call of the view builder was an incremental CSV render of the pair.
IncrementalRenderDone ==
    /\ render.called /\ render.op = "csv" /\ render.pair = "p1"
    /\ render.incremental

\* C35: incremental CSV render is idempotent: running it a second time with
\* no Observation stored in between leaves the CSV artifact byte-for-byte
\* unchanged.
C35_IncrementalIdempotent ==
    [][(/\ IncrementalRenderDone
        /\ files' = files
        /\ render'.op = "csv" /\ render'.incremental) => csv' = csv]_vars
\* A first incremental render has appended the row of an older date to the
\* artifact (no artifact starts with its rows out of order) and the second
\* one has found nothing to process and returned without touching it.
C35_Witness ==
    /\ IncrementalRenderDone
    /\ render.status = "returned"
    /\ render.before = csv["p1"]
    /\ csv["p1"].exists
    /\ \E j, k \in 1..Len(csv["p1"].rows) :
           j < k /\ csv["p1"].rows[j].date > csv["p1"].rows[k].date
    /\ procMeta["p1"].csv = 0

\* An incremental collect is under way that found the Watermark latest_date D.
IncrementalFrom(r, D) ==
    /\ ~Finished(r)
    /\ run[r].incremental
    /\ run[r].pre_meta.state = "ok"
    /\ run[r].pre_meta.latest_date = D
\* The dates get_missing_dates reports for the whole calendar.
ReportedMissing(p) ==
    LET result == GetMissingDates(p, 1, MaxDate)
    IN {result[k] : k \in 1..Len(result)}

\* The first half of C32 alone: no step of an incremental collect that found
\* the Watermark at D stores an Observation for a date at or before D.
C32_NothingWrittenAtOrBefore ==
    [][\A D \in Dates :
          IncrementalFrom("r1", D) =>
             \A d \in 1..D :
                d \notin StoredDates("p1") => d \notin StoredDates("p1")']_vars

\* C32 (as claimed): once the Watermark's latestDate is D, no incremental
\* collect writes an Observation for a date at or before D: a date at or
\* before D that has no stored Observation stays without one through every
\* step of the collect, and stays reported by get_missing_dates.
C32_StaysMissingAndReported ==
    [][\A D \in Dates :
          IncrementalFrom("r1", D) =>
             \A d \in 1..D :
                d \notin StoredDates("p1")
                => /\ d \notin StoredDates("p1")'
                   /\ d \in ReportedMissing("p1")']_vars

\* Both collects of the pair are over.
BothOver == \A r \in Runs : run[r].pc \in {"returned", "raised"}

\* The last part of C37 alone: when both collects are over, a Watermark that
\* exists names the date of a stored Observation.
C37_WatermarkNamesStored ==
    (BothOver /\ meta["p1"].state = "ok")
    => meta["p1"].latest_date \in StoredDates("p1")

\* C37 (as claimed, its first two parts): even when two collects of the same
\* pair interleave at the granularity of the per-date existence check and
\* write, at most one Observation is stored per date and no Observation
\* written by one run is overwritten by the other: a stored Observation is
\* still the stored Observation of its date after every step.
C37_NoOverwrite ==
    [][/\ \A f \in Observations("p1") : f \in Observations("p1")'
       /\ \A f, g \in Observations("p1")' : f.date = g.date => f = g]_vars

\* The Watermark the repeated collects started from: the newest of the
\* Observations written before the clock started (None if there is none).
InitialWatermark ==
    LET earlier == {f.date : f \in {g \in Observations("p1") : g.collected_at = Epoch}}
    IN IF earlier = {} THEN None ELSE MaxOf(earlier)
\* The Watermark equals the latest upstream date and every upstream date
\* after the initial Watermark is stored.
Converged ==
    /\ meta["p1"].state = "ok"
    /\ meta["p1"].latest_date = MaxOf(UpstreamDates("p1"))
    /\ \A d \in UpstreamDates("p1") :
          d > InitialWatermark => d \in StoredDates("p1")

\* C31 (as claimed): if the fetcher eventually stops failing and the source
\* stops publishing new dates, repeated scheduled incremental collects
\* eventually reach a state in which the Watermark equals the latest upstream
\* date and every upstream date after the initial Watermark is stored, and
\* from which every further collect writes nothing.
C31_EventuallyCaughtUp ==
    <>[](Converged) /\ <>[][files' = files]_vars

============================================================================
